---- MODULE Spec2Model ----
(***************************************************************************)
(* Model of the event reconciliation loop of epgtool (src/main.go, the     *)
(* multi-feed variant, lines 147-280): programmes of all source feeds are  *)
(* grouped by channel name, then each allow-list entry is processed in     *)
(* order: timestamps are parsed, an identity is looked up in a run-wide    *)
(* map, a title is selected, the interval is tested against the spans      *)
(* accepted so far for the channel, and the accepted events are sorted by  *)
(* ID and written to one file per allow-list entry.                        *)
(*                                                                         *)
(* Strings that the code builds or compares (IDs, identity keys, channel   *)
(* names) are sequences of byte values.  Instants are whole hours since    *)
(* the Unix epoch; a timestamp string "YYYYMMDDhhmmss -0700" is the pair   *)
(* of its wall-clock hour and its zone offset in hours.                    *)
(***************************************************************************)
EXTENDS Integers, Sequences, FiniteSets, TLC

VARIABLES
    channels,          \* the allow-list, readRequestedChannels (line 149)
    sources,           \* the decoded feeds, readSources (line 156)
    channelEvents,     \* map channel name -> programmes (line 158)
    ids,               \* run-wide identity map (line 173)
    ci,                \* index of the allow-list entry being processed (line 174)
    ei,                \* index of the event being processed (line 184)
    outputChannel,     \* the channel being built (line 179)
    spans,             \* timespan.Spans of the channel (line 182)
    eventByStartTime,  \* map formatted end time -> outputEvent (line 183)
    files,             \* output files by channel ID (marshalChannel, line 266)
    writtenFiles,      \* counter (line 172)
    stdout,            \* collision reports printed (lines 223-233)
    pc                 \* position of main

vars == <<channels, sources, channelEvents, ids, ci, ei, outputChannel, spans,
          eventByStartTime, files, writtenFiles, stdout, pc>>

\* ------------------------------------------------------------------ bounds

\* Largest number of programmes over all feeds of one run (one fewer in the
\* runs that vary the allow-list).
MaxEvents == 3

\* Largest number of allow-list entries.
MaxChannels == 2

\* ----------------------------------------------------------------- strings

\* fmt.Sprintf("%d", n) for n >= 0: the decimal digits as bytes.
RECURSIVE Digits(_)
Digits(n) ==
    IF n < 10 THEN <<48 + n>> ELSE Digits(n \div 10) \o <<48 + (n % 10)>>

\* fmt.Sprintf("%d", n): a leading '-' for a negative number.
FormatInt(n) == IF n < 0 THEN <<45>> \o Digits(-n) ELSE Digits(n)

\* Go's < on strings: bytewise lexicographic, a proper prefix is smaller.
RECURSIVE StrLess(_, _)
StrLess(a, b) ==
    IF b = <<>> THEN FALSE
    ELSE IF a = <<>> THEN TRUE
    ELSE IF a[1] # b[1] THEN a[1] < b[1]
    ELSE StrLess(Tail(a), Tail(b))

\* ------------------------------------------------------------------- time

\* A timestamp string that time.Parse rejects.
BadStamp == [valid |-> FALSE, wall |-> 0, zone |-> 0]

\* A timestamp string in inDateLayout: wall-clock hour and zone offset.
Stamp(w, z) == [valid |-> TRUE, wall |-> w, zone |-> z]

\* err != nil of time.Parse(inDateLayout, s).
ParseFails(s) == ~s.valid

\* The instant time.Parse(inDateLayout, s) returns: wall clock minus offset.
ParseTime(s) == s.wall - s.zone

\* t.UTC().Unix(): seconds since the epoch.
Unix(t) == t * 3600

\* t.UTC().Format(outDateLayout): the rendering of a UTC instant at second
\* resolution is one-to-one and order-preserving on instants, and is
\* represented by the instant.
FormatUTC(t) == t

\* ------------------------------------------- github.com/senseyeio/spaniel

\* timespan.New(start, end): [start, end) for a span, [start, start] for
\* an instant.
New(start, end) ==
    [start |-> start, end |-> end, startType |-> "closed",
     endType |-> IF start = end THEN "closed" ELSE "open"]

\* overlap(a, b) of the library: false when a starts after b ends or a ends
\* before b starts, an open end point excluding equality.
overlap(a, b) ==
    LET c1 == \/ a.start > b.end
              \/ /\ a.start = b.end
                 /\ (a.startType = "open" \/ b.endType = "open")
        c2 == \/ a.end < b.start
              \/ /\ a.end = b.start
                 /\ (a.endType = "open" \/ b.startType = "open")
    IN  ~(c1 \/ c2)

\* Spans{candidate, span}.Intersection(): the two are stably sorted by start,
\* the earlier one stays active only if it is identical to the later one or
\* the later one starts before it ends, and an active pair that overlaps
\* yields its intersection span.
Intersection(candidate, span) ==
    LET t == IF span.start < candidate.start THEN span ELSE candidate
        b == IF span.start < candidate.start THEN candidate ELSE span
        active == \/ (b.start = t.start /\ b.end = t.end)
                  \/ b.start < t.end
        lo == IF t.start > b.start THEN t.start ELSE b.start
        hi == IF t.end < b.end THEN t.end ELSE b.end
    IN  IF active /\ overlap(t, b) THEN <<[start |-> lo, end |-> hi]>> ELSE <<>>

\* s.IntersectionBetween(Spans{candidate}): the intersections of the
\* candidate with every span of s, in order.
RECURSIVE IntersectionBetween(_, _)
IntersectionBetween(s, candidate) ==
    IF s = <<>> THEN <<>>
    ELSE Intersection(candidate, Head(s)) \o IntersectionBetween(Tail(s), candidate)

\* ------------------------------------------------------------- grouping

\* AppendEvent with the programme put in front of its channel's list.
AppendEventFront(m, e) ==
    IF e.ChannelName \in DOMAIN m
    THEN [m EXCEPT ![e.ChannelName] = <<e>> \o @]
    ELSE (e.ChannelName :> <<e>>) @@ m

\* One iteration of lines 161-166: append e to the list of its channel.
AppendEvent(m, e) ==
    IF e.ChannelName \in DOMAIN m
    THEN [m EXCEPT ![e.ChannelName] = Append(@, e)]
    ELSE (e.ChannelName :> <<e>>) @@ m

\* The inner loop of lines 160-167 over one feed's ProgramList.
RECURSIVE GroupFeed(_, _)
GroupFeed(m, feed) ==
    IF feed = <<>> THEN m ELSE GroupFeed(AppendEvent(m, Head(feed)), Tail(feed))

\* The loop of lines 159-168 over the feeds, in load order.
RECURSIVE GroupSources(_, _)
GroupSources(m, srcs) ==
    IF srcs = <<>> THEN m ELSE GroupSources(GroupFeed(m, Head(srcs)), Tail(srcs))

\* ------------------------------------------------------- per-event steps

\* Line 194: the output ID, the decimal string of the start's Unix seconds.
EventID(startTime) == FormatInt(Unix(startTime))

\* Line 195: fmt.Sprintf("%s-%s", id, event.ChannelName).
Idc(id, event) == id \o <<45>> \o event.ChannelName

\* IsDuplicate with the comparison of the channel names inverted.
IsDuplicateOtherChannel(m, idc, event) ==
    idc \in DOMAIN m /\ m[idc].ChannelName # event.ChannelName

\* Lines 197-204: the event is skipped when its key is in the map and the
\* stored programme has the same channel name.
IsDuplicate(m, idc, event) ==
    idc \in DOMAIN m /\ m[idc].ChannelName = event.ChannelName

\* Register that stores nothing.
RegisterNothing(m, idc, event) == m

\* Lines 197-199: the key is stored at first sight and never overwritten.
Register(m, idc, event) ==
    IF idc \in DOMAIN m THEN m ELSE (idc :> event) @@ m

\* Lines 212-216 applied to a non-empty title list: starting from the
\* first title, every title with Lang "bg" replaces the choice.
RECURSIVE SelectTitle(_, _)
SelectTitle(t, titles) ==
    IF titles = <<>> THEN t
    ELSE SelectTitle(IF Head(titles).Lang = "bg" THEN Head(titles) ELSE t,
                     Tail(titles))

\* Lines 218-222: len(overlaps) > 0.
Collides(s, startTime, endTime) ==
    Len(IntersectionBetween(s, New(startTime, endTime))) > 0

\* AppendSpan that forgets the interval.
AppendSpanForgotten(s, startTime, endTime) == s

\* Line 236: the accepted interval is appended to the channel's spans.
AppendSpan(s, startTime, endTime) == Append(s, New(startTime, endTime))

\* Lines 239-250: the output event.  Actors, Directors, ProductionYear and
\* ProductionCountries are copied from the programme like Description and
\* take no part in any decision; Description stands for them.
MakeOutputEvent(event, t, startTime, endTime) ==
    [ID          |-> EventID(startTime),
     Name        |-> t.Name,
     StartTime   |-> FormatUTC(startTime),
     EndTime     |-> FormatUTC(endTime),
     Perex       |-> event.Description,
     Description |-> event.Description]

\* --------------------------------------------------------------- sorting

\* byStartTime.Less (line 280): the IDs compared as strings.
Less(a, b) == StrLess(a.ID, b.ID)

\* One insertion step of sort.Sort: x moves towards the front while it is
\* Less than its predecessor.
RECURSIVE Insert(_, _)
Insert(s, x) ==
    IF s # <<>> /\ Less(x, s[Len(s)])
    THEN Append(Insert(SubSeq(s, 1, Len(s) - 1), x), s[Len(s)])
    ELSE Append(s, x)

\* sort.Sort(byStartTime(values)) (line 257).
RECURSIVE SortValues(_)
SortValues(values) ==
    IF values = <<>> THEN <<>>
    ELSE Insert(SortValues(SubSeq(values, 1, Len(values) - 1)),
                values[Len(values)])

\* ---------------------------------------------------------------- inputs

Alfa == <<65, 108, 102, 97>>
Beta == <<66, 101, 116, 97>>

TitleEn == [Lang |-> "en", Name |-> "Good morning"]
TitleBg == [Lang |-> "bg", Name |-> "Dobro utro"]

\* Programmes as the feed decoder delivers them, without their description.
Programmes(names, starts, stops, titles) ==
    [ChannelName : names, Start : starts, Stop : stops, Title : titles]

\* Every programme gets a description of its own: its feed and its place
\* in the feed.
Describe(f, feed) ==
    [i \in 1 .. Len(feed) |->
        [ChannelName |-> feed[i].ChannelName, Start |-> feed[i].Start,
         Stop |-> feed[i].Stop, Title |-> feed[i].Title,
         Description |-> <<f, i>>]]

\* One feed of at most n programmes.
OneFeed(progs, n) ==
    UNION {{<<Describe(1, f1)>> : f1 \in [1 .. n1 -> progs]} : n1 \in 0 .. n}

\* Two feeds, in load order, of at most n programmes together.
TwoFeeds(progs, n) ==
    UNION {{<<Describe(1, f1), Describe(2, f2)>> :
                f1 \in [1 .. n1 -> progs],
                f2 \in UNION {[1 .. n2 -> progs] : n2 \in 0 .. (n - n1)}} :
           n1 \in 0 .. n}

\* An allow-list: the entries' IDs are their line numbers.
AllowList(names) ==
    [i \in 1 .. Len(names) |-> [ID |-> FormatInt(i), Name |-> names[i]]]

Runs(allowLists, feeds) ==
    [channels : {AllowList(l) : l \in allowLists}, sources : feeds]

\* Runs that vary the timeline of one channel: every start and stop among
\* 02:00, 03:00 and 04:00 UTC of 1970-01-01, which gives proper, touching,
\* overlapping, empty and inverted intervals, and IDs of four and of five
\* digits.
TimelineRuns ==
    LET stamps == {Stamp(w, 0) : w \in {2, 3, 4}}
    IN  Runs({<<Alfa>>},
             OneFeed(Programmes({Alfa}, stamps, stamps, {<<TitleEn>>}), MaxEvents))

\* Runs that vary the split of one channel's programmes over two feeds.
FeedRuns ==
    Runs({<<Alfa>>},
         TwoFeeds(Programmes({Alfa}, {Stamp(2, 0), Stamp(3, 0)},
                             {Stamp(3, 0), Stamp(4, 0)}, {<<TitleEn>>}),
                  MaxEvents))

\* Runs that vary the timestamp strings: unparseable ones, and one instant
\* written in two zones.
StampRuns ==
    Runs({<<Alfa>>},
         OneFeed(Programmes({Alfa}, {BadStamp, Stamp(3, 0), Stamp(4, 1)},
                            {BadStamp, Stamp(5, 0)}, {<<TitleEn>>}),
                 MaxEvents))

\* Runs that vary the title variants.
TitleRuns ==
    Runs({<<Alfa>>},
         OneFeed(Programmes({Alfa}, {Stamp(2, 0), Stamp(3, 0)}, {Stamp(4, 0)},
                            {<<>>, <<TitleEn>>, <<TitleEn, TitleBg>>}),
                 MaxEvents))

\* Runs that vary the allow-list and the channels of the programmes.
ChannelRuns ==
    Runs(UNION {[1 .. n -> {Alfa, Beta}] : n \in 1 .. MaxChannels},
         TwoFeeds(Programmes({Alfa, Beta}, {BadStamp, Stamp(2, 0), Stamp(3, 0)},
                             {Stamp(4, 0)}, {<<TitleEn>>}),
                  MaxEvents - 1))

Inputs ==
    TimelineRuns \cup FeedRuns \cup StampRuns \cup TitleRuns \cup ChannelRuns

\* ------------------------------------------------------------------ main

\* main up to line 157: the allow-list and the feeds are read, nothing is
\* grouped or processed yet.
Init ==
    /\ \E in \in Inputs : channels = in.channels /\ sources = in.sources
    /\ channelEvents = <<>>
    /\ ids = <<>>
    /\ ci = 1
    /\ ei = 0
    /\ outputChannel = [ID |-> <<>>, Name |-> <<>>, Values |-> <<>>]
    /\ spans = <<>>
    /\ eventByStartTime = <<>>
    /\ files = <<>>
    /\ writtenFiles = 0
    /\ stdout = <<>>
    /\ pc = "group"

\* The allow-list entry, the event list and the event of the current
\* iteration (lines 174, 175, 184).
Channel == channels[ci]
Events == channelEvents[Channel.Name]
Event == Events[ei]

AtEvent == pc = "events" /\ ei <= Len(Events)
Parsed == ~ParseFails(Event.Start) /\ ~ParseFails(Event.Stop)
StartTime == ParseTime(Event.Start)
EndTime == ParseTime(Event.Stop)
EventIdc == Idc(EventID(StartTime), Event)

\* Lines 158-168.
GroupEvents ==
    /\ pc = "group"
    /\ channelEvents' = GroupSources(<<>>, sources)
    /\ pc' = "channels"
    /\ UNCHANGED <<channels, sources, ids, ci, ei, outputChannel, spans,
                   eventByStartTime, files, writtenFiles, stdout>>

\* Lines 174-178: an allow-list entry without programmes is passed over.
SkipChannel ==
    /\ pc = "channels"
    /\ ci <= Len(channels)
    /\ Channel.Name \notin DOMAIN channelEvents
    /\ ci' = ci + 1
    /\ UNCHANGED <<channels, sources, channelEvents, ids, ei, outputChannel,
                   spans, eventByStartTime, files, writtenFiles, stdout, pc>>

\* BeginChannel with the spans of the previous channel kept.
BeginChannelKeepSpans ==
    /\ pc = "channels"
    /\ ci <= Len(channels)
    /\ Channel.Name \in DOMAIN channelEvents
    /\ outputChannel' = [ID |-> Channel.ID, Name |-> Channel.Name, Values |-> <<>>]
    /\ eventByStartTime' = <<>>
    /\ ei' = 1
    /\ pc' = "events"
    /\ UNCHANGED <<channels, sources, channelEvents, ids, ci, spans, files,
                   writtenFiles, stdout>>

\* Lines 174-184: a fresh output channel, fresh spans, a fresh
\* eventByStartTime; ids is not reset.
BeginChannel ==
    /\ pc = "channels"
    /\ ci <= Len(channels)
    /\ Channel.Name \in DOMAIN channelEvents
    /\ outputChannel' = [ID |-> Channel.ID, Name |-> Channel.Name, Values |-> <<>>]
    /\ spans' = <<>>
    /\ eventByStartTime' = <<>>
    /\ ei' = 1
    /\ pc' = "events"
    /\ UNCHANGED <<channels, sources, channelEvents, ids, ci, files,
                   writtenFiles, stdout>>

\* Lines 185-188: log.Fatalf on an unparseable start.
ParseStartFatal ==
    /\ AtEvent
    /\ ParseFails(Event.Start)
    /\ pc' = "fatal"
    /\ UNCHANGED <<channels, sources, channelEvents, ids, ci, ei, outputChannel,
                   spans, eventByStartTime, files, writtenFiles, stdout>>

\* Lines 189-192: log.Fatalf on an unparseable stop.
ParseStopFatal ==
    /\ AtEvent
    /\ ~ParseFails(Event.Start)
    /\ ParseFails(Event.Stop)
    /\ pc' = "fatal"
    /\ UNCHANGED <<channels, sources, channelEvents, ids, ci, ei, outputChannel,
                   spans, eventByStartTime, files, writtenFiles, stdout>>

\* Lines 194-204: continue on a known identity.
SkipDuplicate ==
    /\ AtEvent
    /\ Parsed
    /\ IsDuplicate(ids, EventIdc, Event)
    /\ ei' = ei + 1
    /\ UNCHANGED <<channels, sources, channelEvents, ids, ci, outputChannel,
                   spans, eventByStartTime, files, writtenFiles, stdout, pc>>

\* Lines 194-210: event.Title[0] on an empty title list is an index out of
\* range and the run panics, the identity already stored.
TitlePanic ==
    /\ AtEvent
    /\ Parsed
    /\ ~IsDuplicate(ids, EventIdc, Event)
    /\ Event.Title = <<>>
    /\ ids' = Register(ids, EventIdc, Event)
    /\ pc' = "panic"
    /\ UNCHANGED <<channels, sources, channelEvents, ci, ei, outputChannel,
                   spans, eventByStartTime, files, writtenFiles, stdout>>

\* Lines 194-234: the interval intersects an accepted span; the collision
\* is printed and the event skipped.
SkipCollision ==
    /\ AtEvent
    /\ Parsed
    /\ ~IsDuplicate(ids, EventIdc, Event)
    /\ Event.Title # <<>>
    /\ Collides(spans, StartTime, EndTime)
    /\ ids' = Register(ids, EventIdc, Event)
    /\ stdout' = Append(stdout,
            [ID |-> Channel.ID, Name |-> Channel.Name,
             Start |-> Event.Start, Stop |-> Event.Stop,
             existing |-> IF FormatUTC(EndTime) \in DOMAIN eventByStartTime
                          THEN <<eventByStartTime[FormatUTC(EndTime)].Description>>
                          ELSE <<>>,
             skip |-> Event.Description])
    /\ ei' = ei + 1
    /\ UNCHANGED <<channels, sources, channelEvents, ci, outputChannel, spans,
                   eventByStartTime, files, writtenFiles, pc>>

\* Lines 194-254: the event is accepted.
AcceptEvent ==
    /\ AtEvent
    /\ Parsed
    /\ ~IsDuplicate(ids, EventIdc, Event)
    /\ Event.Title # <<>>
    /\ ~Collides(spans, StartTime, EndTime)
    /\ LET out == MakeOutputEvent(Event, SelectTitle(Event.Title[1], Event.Title),
                                  StartTime, EndTime)
       IN  /\ eventByStartTime' = (FormatUTC(EndTime) :> out) @@ eventByStartTime
           /\ outputChannel' =
                  [outputChannel EXCEPT !.Values = Append(@, out)]
    /\ ids' = Register(ids, EventIdc, Event)
    /\ spans' = AppendSpan(spans, StartTime, EndTime)
    /\ ei' = ei + 1
    /\ UNCHANGED <<channels, sources, channelEvents, ci, files, writtenFiles,
                   stdout, pc>>

\* Lines 257-269: the values are sorted in place and the channel is
\* written to n_events_<ID>.xml (os.Create replaces an existing file).
WriteChannel ==
    /\ pc = "events"
    /\ ei > Len(Events)
    /\ outputChannel' = [outputChannel EXCEPT !.Values = SortValues(@)]
    /\ files' = (outputChannel.ID :> outputChannel') @@ files
    /\ writtenFiles' = writtenFiles + 1
    /\ ci' = ci + 1
    /\ pc' = "channels"
    /\ UNCHANGED <<channels, sources, channelEvents, ids, ei, spans,
                   eventByStartTime, stdout>>

\* Lines 270-274: the allow-list is exhausted.
Finish ==
    /\ pc = "channels"
    /\ ci > Len(channels)
    /\ pc' = "done"
    /\ UNCHANGED <<channels, sources, channelEvents, ids, ci, ei, outputChannel,
                   spans, eventByStartTime, files, writtenFiles, stdout>>

Next ==
    \/ GroupEvents
    \/ SkipChannel
    \/ BeginChannel
    \/ ParseStartFatal
    \/ ParseStopFatal
    \/ SkipDuplicate
    \/ TitlePanic
    \/ SkipCollision
    \/ AcceptEvent
    \/ WriteChannel
    \/ Finish

Spec == Init /\ [][Next]_vars

\* ------------------------------------------------------ claims: helpers

\* The output sequences of a state: the one being built and the written ones.
OutputChannels == {outputChannel} \cup {files[k] : k \in DOMAIN files}

\* The half-open overlap test on two output events.
HalfOpenOverlap(a, b) == a.StartTime < b.EndTime /\ b.StartTime < a.EndTime

\* All programmes of the run, feed by feed in load order.
RECURSIVE Flatten(_)
Flatten(srcs) == IF srcs = <<>> THEN <<>> ELSE Head(srcs) \o Flatten(Tail(srcs))

\* The programmes of channel name n, in the order the engine meets them.
ChannelProgrammes(n) == SelectSeq(Flatten(sources), LAMBDA e : e.ChannelName = n)

StartsAt(e, t) == ~ParseFails(e.Start) /\ ParseTime(e.Start) = t

\* The first programme of evs that starts at instant t.
FirstWithStart(evs, t) ==
    evs[CHOOSE i \in 1 .. Len(evs) :
            /\ StartsAt(evs[i], t)
            /\ \A j \in 1 .. (i - 1) : ~StartsAt(evs[j], t)]

\* An event with the channel key and start instant of the current event was
\* processed before it: earlier in this pass, or in the pass of an earlier
\* allow-list entry with the same display name.
EarlierSameSlot ==
    \/ \E j \in 1 .. (ei - 1) : StartsAt(Events[j], StartTime)
    \/ \E c \in 1 .. (ci - 1) : channels[c].Name = Channel.Name

\* The current event's interval overlaps an accepted event of this pass.
OverlapsAccepted ==
    \E i \in 1 .. Len(outputChannel.Values) :
        HalfOpenOverlap([StartTime |-> StartTime, EndTime |-> EndTime],
                        outputChannel.Values[i])

\* The step appends the current event to the output sequence.
AcceptedByStep ==
    /\ Len(outputChannel'.Values) = Len(outputChannel.Values) + 1
    /\ SubSeq(outputChannel'.Values, 1, Len(outputChannel.Values))
           = outputChannel.Values
    /\ outputChannel'.Values[Len(outputChannel'.Values)].StartTime = StartTime
    /\ outputChannel'.Values[Len(outputChannel'.Values)].EndTime = EndTime
    /\ outputChannel'.Values[Len(outputChannel'.Values)].Description
           = Event.Description

\* The step leaves the output sequence as it is.
RejectedByStep == outputChannel'.Values = outputChannel.Values

\* The pass over events for an allow-list with a single entry: the loop of
\* lines 184-257 started from an empty identity map.
RECURSIVE AloneRun(_, _, _, _)
AloneRun(events, m, s, values) ==
    IF events = <<>> THEN [status |-> "written", Values |-> SortValues(values)]
    ELSE LET e == Head(events)
         IN  IF ParseFails(e.Start) \/ ParseFails(e.Stop)
             THEN [status |-> "fatal", Values |-> <<>>]
             ELSE LET st  == ParseTime(e.Start)
                      en  == ParseTime(e.Stop)
                      idc == Idc(EventID(st), e)
                  IN  IF IsDuplicate(m, idc, e)
                      THEN AloneRun(Tail(events), m, s, values)
                      ELSE IF e.Title = <<>>
                      THEN [status |-> "panic", Values |-> <<>>]
                      ELSE IF Collides(s, st, en)
                      THEN AloneRun(Tail(events), Register(m, idc, e), s, values)
                      ELSE AloneRun(Tail(events), Register(m, idc, e),
                                    AppendSpan(s, st, en),
                                    Append(values,
                                           MakeOutputEvent(e,
                                               SelectTitle(e.Title[1], e.Title),
                                               st, en)))

\* The allow-list entries whose file has been written.
Written == {c \in 1 .. Len(channels) : c < ci /\ channels[c].ID \in DOMAIN files}

\* ---------------------------------------------------------------- claims

\* C1: in every state, that is after every single step of every pass, no
\* two distinct events of an output sequence (the one being built or a
\* written one) have intervals that intersect under the half-open test.
C1_NoOverlap ==
    \A out \in OutputChannels :
        \A i, j \in 1 .. Len(out.Values) :
            i # j => ~HalfOpenOverlap(out.Values[i], out.Values[j])

\* C1 witness: a finished run that accepted two events of one channel and
\* rejected a third as a collision.
C1_Witness ==
    /\ pc = "done"
    /\ Len(stdout) > 0
    /\ \E k \in DOMAIN files : Len(files[k].Values) >= 2

\* C2: every event of an output sequence carries the description of the
\* first programme, in feed load order and then feed order, with its
\* channel name and start instant, and no other event of the sequence has
\* that start instant.
C2_FirstWins ==
    \A out \in OutputChannels :
        \A i \in 1 .. Len(out.Values) :
            /\ out.Values[i].Description =
                   FirstWithStart(ChannelProgrammes(out.Name),
                                  out.Values[i].StartTime).Description
            /\ \A j \in 1 .. Len(out.Values) :
                   j # i => out.Values[j].StartTime # out.Values[i].StartTime

\* C2 witness: a finished run whose file holds an event from the first
\* feed although the second feed has a programme of the same channel and
\* start instant with another stop.
C2_Witness ==
    /\ pc = "done"
    /\ \E k \in DOMAIN files : \E i \in 1 .. Len(files[k].Values) :
          /\ files[k].Values[i].Description[1] = 1
          /\ Len(sources) = 2
          /\ \E q \in 1 .. Len(sources[2]) :
                /\ sources[2][q].ChannelName = files[k].Name
                /\ StartsAt(sources[2][q], files[k].Values[i].StartTime)
                /\ ~ParseFails(sources[2][q].Stop)
                /\ ParseTime(sources[2][q].Stop) # files[k].Values[i].EndTime

\* C3: every written sequence is non-decreasing in start instant.
C3_Chronological ==
    \A k \in DOMAIN files :
        \A i, j \in 1 .. Len(files[k].Values) :
            i < j => files[k].Values[i].StartTime <= files[k].Values[j].StartTime

\* C4: a step that processes a parsed event with start < end and a channel
\* key and start instant not processed before appends the event to the
\* output sequence if its interval overlaps no event accepted in this pass,
\* and leaves the sequence unchanged otherwise.
C4_AcceptRule ==
    [][(AtEvent /\ Parsed /\ StartTime < EndTime /\ ~EarlierSameSlot)
          => IF OverlapsAccepted THEN RejectedByStep ELSE AcceptedByStep]_vars

\* C4 for the events that have a title: the same rule, restricted to the
\* events on which title selection does not panic.
C4_AcceptRuleTitled ==
    [][(AtEvent /\ Parsed /\ StartTime < EndTime /\ ~EarlierSameSlot
           /\ Event.Title # <<>>)
          => IF OverlapsAccepted THEN RejectedByStep ELSE AcceptedByStep]_vars

\* C5: no output sequence ever holds an event whose start is not strictly
\* before its end.
C5_NoDegenerateAccepted ==
    \A out \in OutputChannels :
        \A i \in 1 .. Len(out.Values) :
            out.Values[i].StartTime < out.Values[i].EndTime

\* C6: when a programme of a requested channel has an unparseable start or
\* stop, no output file is ever written in the run.
C6_NoPartialOutput ==
    (\E c \in 1 .. Len(channels) :
        \E i \in 1 .. Len(ChannelProgrammes(channels[c].Name)) :
            LET e == ChannelProgrammes(channels[c].Name)[i]
            IN  ParseFails(e.Start) \/ ParseFails(e.Stop))
    => (writtenFiles = 0 /\ DOMAIN files = {})

\* The title the selection rule of C7 names for a programme.
ExpectedName(e) ==
    IF e.Title = <<>> THEN ""
    ELSE IF \E i \in 1 .. Len(e.Title) : e.Title[i].Lang = "bg"
    THEN (CHOOSE t \in {e.Title[i] : i \in 1 .. Len(e.Title)} : t.Lang = "bg").Name
    ELSE e.Title[1].Name

\* C7: title selection never fails, and every accepted event carries the
\* name of the "bg" variant of its programme when there is one, of the
\* first variant otherwise, and the empty string when there is none.
C7_TitleTotal ==
    /\ pc # "panic"
    /\ \A out \in OutputChannels :
          \A i \in 1 .. Len(out.Values) :
              \E j \in 1 .. Len(ChannelProgrammes(out.Name)) :
                  LET e == ChannelProgrammes(out.Name)[j]
                  IN  /\ e.Description = out.Values[i].Description
                      /\ out.Values[i].Name = ExpectedName(e)

\* C8: the identity map only grows; every step that processes a parsed
\* event leaves its identity stored, whatever the outcome; and a step that
\* processes a parsed event whose channel key and start instant were
\* processed before moves to the next event and changes neither the output
\* sequence, nor the spans, nor the printed collision reports.
C8_IdentityLatched ==
    [][/\ \A k \in DOMAIN ids : k \in DOMAIN ids' /\ ids'[k] = ids[k]
       /\ (AtEvent /\ Parsed) => EventIdc \in DOMAIN ids'
       /\ (AtEvent /\ Parsed /\ EarlierSameSlot)
             => /\ ei' = ei + 1
                /\ pc' = pc
                /\ stdout' = stdout
                /\ spans' = spans
                /\ outputChannel' = outputChannel]_vars

\* C8 witness: the event just passed over has the start of an earlier event
\* that was rejected as a collision (one report, no accepted event with
\* that start), and its own interval overlaps no accepted event.
C8_Witness ==
    /\ pc = "events"
    /\ ei >= 3
    /\ ei - 1 <= Len(Events)
    /\ Len(stdout) = 1
    /\ LET e == Events[ei - 1]
       IN  /\ ~ParseFails(e.Start) /\ ~ParseFails(e.Stop)
           /\ ParseTime(e.Start) < ParseTime(e.Stop)
           /\ \E j \in 1 .. (ei - 2) : StartsAt(Events[j], ParseTime(e.Start))
           /\ Len(outputChannel.Values) > 0
           /\ \A i \in 1 .. Len(outputChannel.Values) :
                 /\ outputChannel.Values[i].StartTime # ParseTime(e.Start)
                 /\ ~HalfOpenOverlap([StartTime |-> ParseTime(e.Start),
                                      EndTime |-> ParseTime(e.Stop)],
                                     outputChannel.Values[i])

\* C9: the sequence written for an allow-list entry is the sequence of a
\* run whose allow-list holds that entry alone.
C9_Independent ==
    \A c \in Written :
        LET alone == AloneRun(channelEvents[channels[c].Name], <<>>, <<>>, <<>>)
        IN  /\ alone.status = "written"
            /\ files[channels[c].ID].Values = alone.Values

\* C9 amended: the sequence written for an allow-list entry whose display
\* name no earlier entry has is the sequence of a run whose allow-list
\* holds that entry alone; the sequence written for an entry that repeats
\* an earlier entry's display name is empty.
C9_IndependentOfOtherNames ==
    \A c \in Written :
        LET alone == AloneRun(channelEvents[channels[c].Name], <<>>, <<>>, <<>>)
        IN  IF \E b \in 1 .. (c - 1) : channels[b].Name = channels[c].Name
            THEN files[channels[c].ID].Values = <<>>
            ELSE /\ alone.status = "written"
                 /\ files[channels[c].ID].Values = alone.Values

\* C9 witness: a finished run with two entries of different names, both
\* written non-empty, whose first events start at the same instant.
C9_Witness ==
    /\ pc = "done"
    /\ Written = {1, 2}
    /\ channels[1].Name # channels[2].Name
    /\ Len(files[channels[1].ID].Values) > 0
    /\ Len(files[channels[2].ID].Values) > 0
    /\ files[channels[1].ID].Values[1].StartTime
          = files[channels[2].ID].Values[1].StartTime

\* C10: no two events of an output sequence carry the same ID.
C10_UniqueIDs ==
    \A out \in OutputChannels :
        \A i, j \in 1 .. Len(out.Values) :
            i # j => out.Values[i].ID # out.Values[j].ID

\* C10 witness: a finished run that wrote two events of one channel and
\* passed over a third programme with the start instant of one of them.
C10_Witness ==
    /\ pc = "done"
    /\ \E k \in DOMAIN files :
          /\ Len(files[k].Values) >= 2
          /\ \E i \in 1 .. Len(files[k].Values) :
                Cardinality({j \in 1 .. Len(ChannelProgrammes(files[k].Name)) :
                    StartsAt(ChannelProgrammes(files[k].Name)[j],
                             files[k].Values[i].StartTime)}) >= 2

====
